---------------------------- MODULE Spec2Model ----------------------------
(***************************************************************************)
(* A model of pagerank.py: the transition model, the random-surfer sampler *)
(* (sample_pagerank) and the iterative solver (iterate_pagerank), run on   *)
(* the corpus mapping that crawl returns.  Pages are the integers 1..N in  *)
(* key order; 0 stands for "no page yet".  Real numbers are exact          *)
(* rationals <<numerator, denominator>> in lowest terms, denominator > 0.  *)
(***************************************************************************)
EXTENDS Integers, Sequences, FiniteSets, TLC

\* ------------------------------------------------------------------ bounds
MaxPages == 3
MaxSamples == 2
MaxIter == 9

\* ------------------------------------------------------- exact arithmetic
\* The arithmetic is written as functions: a function's arguments are values
\* when its body is evaluated, so nested sums and products cost one
\* evaluation each.
Abs(x) == IF x < 0 THEN -x ELSE x

Q == Int \X Nat

GCD[a \in Nat, b \in Nat] == IF b = 0 THEN a ELSE GCD[b, a % b]

RatF[num \in Int, den \in Nat] ==
    LET g == GCD[Abs(num), den]
    IN  <<num \div g, den \div g>>

RAddF[a \in Q, b \in Q] ==
    LET l == (a[2] \div GCD[a[2], b[2]]) * b[2]
    IN  RatF[a[1] * (l \div a[2]) + b[1] * (l \div b[2]), l]

RMulF[a \in Q, b \in Q] ==
    LET g1 == GCD[Abs(a[1]), b[2]]
        g2 == GCD[Abs(b[1]), a[2]]
    IN  RatF[(a[1] \div g1) * (b[1] \div g2), (a[2] \div g2) * (b[2] \div g1)]

Zero == <<0, 1>>
One == <<1, 1>>

\* num / den in lowest terms, den > 0
Rat(num, den) == RatF[num, den]

RAdd(a, b) == RAddF[a, b]

RNeg(a) == <<-a[1], a[2]>>

RSub(a, b) == RAddF[a, RNeg(b)]

RMul(a, b) == RMulF[a, b]

\* a / k for an integer k > 0
RDivInt(a, k) == RMulF[a, <<1, k>>]

RAbs(a) == <<Abs(a[1]), a[2]>>

\* ------------------------------------------------------------------ state
VARIABLES
    corpus,            \* the mapping the caller holds: page -> linked pages
    corpus0,           \* history: the mapping as crawl returned it
    s_pc,              \* sample_pagerank: "idle", "walk", "done", "fault"
    s_damping,         \* sample_pagerank's damping_factor
    n,                 \* sample_pagerank's n
    s_page_ranks,      \* sample_pagerank's page_ranks while counting visits
    s_result,          \* the table sample_pagerank returns
    start_page,
    curr_page,
    i,                 \* the loop index of range(1, n)
    tm_page,           \* the page of the latest transition_model call, 0 if none
    sample_distribution, \* what that call returned
    s_error,           \* the exception that ended the walk, "" if none
    it_pc,             \* iterate_pagerank: "idle", "loop", "returned"
    it_damping,        \* iterate_pagerank's damping_factor
    page_ranks,        \* iterate_pagerank's page_ranks
    new_page_ranks,    \* the table the latest iteration computed
    prev_page_ranks,   \* history: page_ranks as the latest iteration read it
    it_result,         \* the table iterate_pagerank returns
    iter               \* iterations run so far

svars == <<s_pc, s_damping, n, s_page_ranks, s_result, start_page, curr_page, i,
           tm_page, sample_distribution, s_error>>
itvars == <<it_pc, it_damping, page_ranks, new_page_ranks, prev_page_ranks,
            it_result, iter>>
vars == <<corpus, corpus0, svars, itvars>>

\* ----------------------------------------------------------------- inputs
\* damping factors handed to sample_pagerank and to iterate_pagerank
DampingsSample == {<<0, 1>>, <<17, 20>>, <<1, 1>>}
DampingsIter == {<<0, 1>>, <<1, 250>>, <<1, 2>>, <<1, 1>>}

\* what crawl returns: every page maps to a set of other pages of the corpus
Corpora ==
    UNION { [1..N -> SUBSET (1..N)] : N \in 1..MaxPages }

crawl == { c \in Corpora : \A p \in DOMAIN c : p \notin c[p] }

\* list(corpus.keys())
keys(c) == [k \in 1..Cardinality(DOMAIN c) |-> k]

Range(s) == { s[k] : k \in DOMAIN s }

Init ==
    /\ corpus \in crawl
    /\ corpus0 = corpus
    /\ s_pc = "idle"
    /\ s_damping = Zero
    /\ n = 0
    /\ s_page_ranks = <<>>
    /\ s_result = <<>>
    /\ start_page = 0
    /\ curr_page = 0
    /\ i = 0
    /\ tm_page = 0
    /\ sample_distribution = <<>>
    /\ s_error = ""
    /\ it_pc = "idle"
    /\ it_damping = Zero
    /\ page_ranks = <<>>
    /\ new_page_ranks = <<>>
    /\ prev_page_ranks = <<>>
    /\ it_result = <<>>
    /\ iter = 0

\* ------------------------------------------------------- transition_model
\* mutant: the division 1 / pages_count hoisted out of the loop over the links
LinkFollowFaultHoisted(links) == Cardinality(links) = 0

\* the division 1 / pages_count stands inside the loop over corpus[page]:
\* it is evaluated, and can fail, only when that loop has a link to visit
LinkFollowFault(links) == \E link \in links : Cardinality(links) = 0

transition_model_faults(c, page) == LinkFollowFault(c[page])

\* probability_distribution after the first loop: the links only
link_follow(c, page, damping_factor) ==
    LET pages_count == Cardinality(c[page])
    IN  [link \in c[page] |-> RMul(damping_factor, <<1, pages_count>>)]

\* mutant: the random jump spread over all pages of the corpus
random_follow_prob_all(c, page, damping_factor) ==
    RDivInt(RSub(One, damping_factor), Len(keys(c)))

random_follow_prob(c, page, damping_factor) ==
    LET pages_count == Cardinality(c[page])
    IN  RDivInt(RSub(One, damping_factor), pages_count + 1)

transition_model(c, page, damping_factor) ==
    LET first == link_follow(c, page, damping_factor)
        all_pages == Range(keys(c))
    IN  [link \in (DOMAIN first) \cup all_pages |->
            RAdd(IF link \in DOMAIN first THEN first[link] ELSE Zero,
                 IF link \in all_pages
                    THEN random_follow_prob(c, page, damping_factor)
                    ELSE Zero)]

\* -------------------------------------------------------- sample_pagerank
SamplerFree == it_pc \in {"idle", "returned"}

SampleStart ==
    /\ s_pc = "idle"
    /\ SamplerFree
    /\ \E d \in DampingsSample, nn \in 1..MaxSamples, start \in DOMAIN corpus :
          /\ s_damping' = d
          /\ n' = nn
          /\ start_page' = start
          /\ s_page_ranks' = [page \in DOMAIN corpus |-> IF page = start THEN 1 ELSE 0]
          /\ curr_page' = start
    /\ i' = 1
    /\ s_pc' = "walk"
    /\ UNCHANGED <<corpus, corpus0, s_result, tm_page, sample_distribution, s_error, itvars>>

\* mutant: for i in range(1, n + 1)
DrawsRemainOneMore(idx, count) == idx <= count

\* for i in range(1, n)
DrawsRemain(idx, count) == idx < count

\* random.choices(population, weights): a page of positive weight; when the
\* weights sum to zero the call raises ValueError (Python 3.9 on) or returns
\* the last page of the population (before 3.9)
Outcomes(dist) ==
    IF \A p \in DOMAIN dist : dist[p] = Zero
       THEN {<<"ValueError", 0>>} \cup
            {<<"drawn", p>> : p \in {q \in DOMAIN dist : \A r \in DOMAIN dist : r <= q}}
       ELSE {<<"drawn", p>> : p \in {q \in DOMAIN dist : dist[q][1] > 0}}

SampleDraw ==
    /\ s_pc = "walk"
    /\ DrawsRemain(i, n)
    /\ tm_page' = curr_page
    /\ IF transition_model_faults(corpus, curr_page)
          THEN /\ s_pc' = "fault"
               /\ s_error' = "ZeroDivisionError"
               /\ UNCHANGED <<sample_distribution, curr_page, s_page_ranks, i>>
          ELSE /\ sample_distribution' = transition_model(corpus, curr_page, s_damping)
               /\ \E o \in Outcomes(sample_distribution') :
                     IF o[1] = "ValueError"
                        THEN /\ s_pc' = "fault"
                             /\ s_error' = "ValueError"
                             /\ UNCHANGED <<curr_page, s_page_ranks, i>>
                        ELSE /\ curr_page' = o[2]
                             /\ s_page_ranks' = [s_page_ranks EXCEPT ![o[2]] = @ + 1]
                             /\ i' = i + 1
                             /\ UNCHANGED <<s_pc, s_error>>
    /\ UNCHANGED <<corpus, corpus0, s_damping, n, s_result, start_page, itvars>>

SampleFinish ==
    /\ s_pc = "walk"
    /\ ~DrawsRemain(i, n)
    /\ s_result' = [page \in DOMAIN s_page_ranks |-> Rat(s_page_ranks[page], n)]
    /\ s_pc' = "done"
    /\ UNCHANGED <<corpus, corpus0, s_damping, n, s_page_ranks, start_page, curr_page,
                   i, tm_page, sample_distribution, s_error, itvars>>

NextSample == SampleStart \/ SampleDraw \/ SampleFinish

SpecSample == Init /\ [][NextSample]_vars

\* ------------------------------------------------------- iterate_pagerank
\* mutant: no dangling-node handling
DanglingKept(c) == c

\* mutant: a page without links points to all the other pages
DanglingToOthers(c) ==
    [page \in DOMAIN c |-> IF c[page] = {} THEN (DOMAIN c) \ {page} ELSE c[page]]

\* the dangling-node loop: corpus[page] = pages for every page without links
\* (pages is the list of all keys, the page itself included)
DanglingRewrite(c) ==
    LET pages == keys(c)
    IN  [page \in DOMAIN c |-> IF c[page] = {} THEN Range(pages) ELSE c[page]]

\* page_ranks = {page: 1 / pages_count}
InitialRanks(c) ==
    LET pages_count == Len(keys(c))
    IN  [page \in DOMAIN c |-> Rat(1, pages_count)]

\* parent_pages: the pages whose links hold `page`, in key order
parent_pages(c, page) ==
    SelectSeq(keys(c), LAMBDA parent_page : page \in c[parent_page])

\* parent_page_rank / parent_page_num_links
rank_contribution(c, ranks, parent_page) ==
    RDivInt(ranks[parent_page], Cardinality(c[parent_page]))

\* the inner loop: rank_contribution_prob_sum over parent_pages
rank_contribution_prob_sum(c, ranks, page) ==
    LET parents == parent_pages(c, page)
        sum[k \in 0..Len(parents)] ==
            IF k = 0 THEN Zero
            ELSE RAdd(sum[k - 1], rank_contribution(c, ranks, parents[k]))
    IN  sum[Len(parents)]

\* mutant: the link sum alone, neither damped nor mixed with the random jump
new_rank_undamped(c, ranks, damping_factor, page) ==
    rank_contribution_prob_sum(c, ranks, page)

new_rank(c, ranks, damping_factor, page) ==
    LET pages_count == Len(keys(c))
        random_jump_prob == RDivInt(RSub(One, damping_factor), pages_count)
        rank_contribution_prob ==
            RMul(damping_factor, rank_contribution_prob_sum(c, ranks, page))
    IN  RAdd(random_jump_prob, rank_contribution_prob)

\* mutant: page_ranks updated in place while the pass over the pages runs
RECURSIVE InPlace(_, _, _, _)
InPlace(c, ranks, damping_factor, k) ==
    IF k = 0
       THEN ranks
       ELSE LET r == InPlace(c, ranks, damping_factor, k - 1)
            IN  [r EXCEPT ![k] = new_rank(c, r, damping_factor, k)]

NewPageRanksInPlace(c, ranks, damping_factor) ==
    InPlace(c, ranks, damping_factor, Len(keys(c)))

\* one pass of "for page in pages": every new rank is computed from page_ranks
NewPageRanks(c, ranks, damping_factor) ==
    [page \in DOMAIN c |-> new_rank(c, ranks, damping_factor, page)]

\* 1 / 0.001
ToleranceInv == 1000

\* mutant: >= 0.001 in place of > 0.001
AtOrOverTolerance[diff \in Q] ==
    diff[1] > diff[2] \div 1000 \/ diff = <<1, 1000>>

ReachesTolerance(old, new) == AtOrOverTolerance[RAbs(RSub(old, new))]

\* abs(page_ranks[page] - new_page_ranks[page]) > 0.001; for a rational
\* x = a/b >= 0, x > 1/1000 iff 1000 * a > b iff a > b \div 1000
OverTolerance[diff \in Q] == diff[1] > diff[2] \div ToleranceInv

ExceedsTolerance(old, new) == OverTolerance[RAbs(RSub(old, new))]

\* the convergence flag after the loop over pages
convergence(ranks, new) ==
    ~ \E page \in DOMAIN ranks : ExceedsTolerance(ranks[page], new[page])

IteratorFree == s_pc \in {"idle", "done"}

IterateStart ==
    /\ it_pc = "idle"
    /\ IteratorFree
    /\ \E d \in DampingsIter : it_damping' = d
    /\ corpus' = DanglingRewrite(corpus)
    /\ page_ranks' = InitialRanks(corpus)
    /\ it_pc' = "loop"
    /\ UNCHANGED <<corpus0, svars, new_page_ranks, prev_page_ranks, it_result, iter>>

IterateStep ==
    /\ it_pc = "loop"
    /\ iter < MaxIter
    /\ new_page_ranks' = NewPageRanks(corpus, page_ranks, it_damping)
    /\ prev_page_ranks' = page_ranks
    /\ iter' = iter + 1
    /\ IF convergence(page_ranks, new_page_ranks')
          THEN /\ it_result' = new_page_ranks'
               /\ it_pc' = "returned"
               /\ UNCHANGED page_ranks
          ELSE /\ page_ranks' = new_page_ranks'
               /\ UNCHANGED <<it_result, it_pc>>
    /\ UNCHANGED <<corpus, corpus0, svars, it_damping>>

NextIter == IterateStart \/ IterateStep

SpecIter == Init /\ [][NextIter]_vars

\* the loop is sequential code: once entered, each iteration runs
FairSpecIter == SpecIter /\ WF_vars(IterateStep)

\* ------------------------------------------------------------------- main
\* a caller that runs the two estimators on one corpus, one call at a time
Next == NextSample \/ NextIter

Spec == Init /\ [][Next]_vars

\* ----------------------------------------------------------------- claims
\* sum of f over the finite set S
RECURSIVE RSumSet(_, _)
RSumSet(S, f) ==
    IF S = {} THEN Zero
    ELSE LET x == CHOOSE y \in S : TRUE
         IN  RAdd(f[x], RSumSet(S \ {x}, f))

Total(f) == RSumSet(DOMAIN f, f)

InUnitInterval(x) == x[1] >= 0 /\ x[1] <= x[2]

IsRankTable(t) ==
    /\ DOMAIN t = DOMAIN corpus0
    /\ Total(t) = One
    /\ \A p \in DOMAIN t : InUnitInterval(t[p])

Dangling == { q \in DOMAIN corpus0 : corpus0[q] = {} }

\* C1: once iterate_pagerank has returned, every page of the caller's mapping
\* has the out-set it had before the call.
C1_CallerGraphUnchanged == it_pc = "returned" => corpus = corpus0

\* C2: every distribution transition_model returns sums to 1, and the call
\* leaves the graph unchanged.
C2_TransitionSumsToOne ==
    sample_distribution # <<>> =>
        /\ Total(sample_distribution) = One
        /\ corpus = corpus0

\* C3: when the walk of sample_pagerank ends, n - 1 draws were made, the visit
\* counts are over the pages of the graph and sum to n, the returned ranks sum
\* to 1, and with n = 1 no transition was evaluated and the table is 1 at the
\* start page and 0 elsewhere.
C3_VisitCountsSumToN ==
    s_pc = "done" =>
        /\ i = n
        /\ DOMAIN s_page_ranks = DOMAIN corpus
        /\ \A p \in DOMAIN s_page_ranks : s_page_ranks[p] >= 0
        /\ Total([p \in DOMAIN s_page_ranks |-> <<s_page_ranks[p], 1>>]) = <<n, 1>>
        /\ Total(s_result) = One
        /\ n = 1 =>
              /\ tm_page = 0
              /\ s_result = [p \in DOMAIN corpus |-> IF p = start_page THEN One ELSE Zero]

C3_Witness ==
    /\ s_pc = "done"
    /\ n > 1
    /\ curr_page # start_page
    /\ \E p \in DOMAIN s_page_ranks : s_page_ranks[p] = 0

\* C4: every rank table iterate_pagerank holds (the initial one, the one each
\* iteration computes, the one returned) sums to 1 with every rank in [0,1].
C4_RankTablesSumToOne ==
    it_pc # "idle" =>
        /\ IsRankTable(page_ranks)
        /\ iter > 0 => IsRankTable(new_page_ranks)
        /\ it_pc = "returned" => IsRankTable(it_result)

C4_Witness ==
    /\ it_pc = "returned"
    /\ iter > 2
    /\ Dangling # {}
    /\ it_damping \notin {Zero, One}

C6_ConvergenceTest ==
    iter > 0 =>
        LET moved(p) == RAbs(RSub(prev_page_ranks[p], new_page_ranks[p]))
            within == \A p \in DOMAIN corpus : moved(p)[1] <= moved(p)[2] \div 1000
        IN  /\ (it_pc = "returned") <=> within
            /\ within => it_result = new_page_ranks
            /\ ~within => (it_pc = "loop" /\ page_ranks = new_page_ranks)

C6_Witness ==
    /\ it_pc = "returned"
    /\ \E p \in DOMAIN corpus :
          RAbs(RSub(prev_page_ranks[p], new_page_ranks[p])) = <<1, 1000>>

\* C7: with a damping factor below 1 the loop of iterate_pagerank, once
\* entered, reaches an iteration that passes the convergence test and returns.
C7_Terminates == (it_pc = "loop" /\ it_damping # One) ~> (it_pc = "returned")

C7_Witness ==
    /\ it_pc = "returned"
    /\ it_damping # One
    /\ iter > 8

\* C8: every iteration sets newRank[p] = (1 - d)/N + d * (sum over the pages q
\* whose out-set in the working graph holds p of rank[q] / outDegree(q)), rank
\* being the table the iteration started from.
C8_Recurrence ==
    iter > 0 =>
        LET N == Cardinality(DOMAIN corpus)
            share == [q \in DOMAIN corpus |->
                         RMul(prev_page_ranks[q], <<1, Cardinality(corpus[q])>>)]
        IN  \A p \in DOMAIN corpus :
               new_page_ranks[p] =
                  RAdd(RMul(RSub(One, it_damping), <<1, N>>),
                       RMul(it_damping,
                            RSumSet({q \in DOMAIN corpus : p \in corpus[q]}, share)))

C8_Witness ==
    /\ iter > 1
    /\ it_damping \notin {Zero, One}
    /\ \E p \in DOMAIN corpus : new_page_ranks[p] # prev_page_ranks[p]
    /\ \E p, q \in DOMAIN corpus : p \notin corpus[q]

\* C9: from the start of iterate_pagerank on, a page without links links to
\* every page, itself included, and the other pages keep their links; in every
\* iteration such a page q is a parent of every page and adds rank[q]/N to
\* its link sum.
C9_DanglingLinksToAll ==
    it_pc # "idle" =>
        \A q \in DOMAIN corpus0 :
            IF q \in Dangling
               THEN /\ corpus[q] = DOMAIN corpus0
                    /\ iter > 0 =>
                          \A p \in DOMAIN corpus0 :
                             /\ q \in Range(parent_pages(corpus, p))
                             /\ rank_contribution(corpus, prev_page_ranks, q) =
                                   RMul(prev_page_ranks[q],
                                        <<1, Cardinality(DOMAIN corpus0)>>)
               ELSE corpus[q] = corpus0[q]

C9_Witness ==
    /\ iter > 1
    /\ Dangling # {}
    /\ Dangling # DOMAIN corpus0
    /\ \E q \in Dangling : prev_page_ranks[q][1] > 0

=============================================================================
